---- MODULE Spec2Model ----
(***************************************************************************)
(* Model of lib/roi_data_layer/layer_pi.py: the RoIDataLayerPi training    *)
(* data layer (index sampler, synchronous feeder, prefetch consumer) and   *)
(* the BlobFetcher producer process that feeds it through a bounded queue. *)
(*                                                                         *)
(* Overlaps are percentages (0.5 is 50).  np.random is modelled as a       *)
(* generator that is either unseeded (its state is unknown, so a draw may  *)
(* give any permutation) or seeded (its draws are a function of its state).*)
(***************************************************************************)
EXTENDS Integers, Sequences, FiniteSets, TLC

\* ---------------------------------------------------------------- bounds
MaxN == 3          \* examples in a roidb set in synchronous mode
MaxPrefetchN == 2  \* examples in a roidb set in prefetch mode
MaxB == 2          \* cfg.TRAIN.IMS_PER_BATCH ranges over 1..MaxB
MaxNumData == 2    \* --num_data ranges over 1..MaxNumData
MaxSetRoidb == 2   \* calls of set_roidb in one run
MaxPush == 11      \* blob-sets recorded in the history of one queue
RngPeriod == 7     \* states of the seeded generator
MaxRois == 2       \* regions of interest in one blob-set

\* ------------------------------------------------------ program constants
QueueCap == 10     \* Queue(10)
FG_THRESH == 50    \* cfg.TRAIN.FG_THRESH
BG_THRESH_HI == 50 \* cfg.TRAIN.BG_THRESH_HI
BG_THRESH_LO == 10 \* cfg.TRAIN.BG_THRESH_LO
Omitted == 0       \* get_minibatch called without its num_data argument
None == -1         \* the value argparse gives an argument that is absent

\* max_overlaps vectors an example of the roidb may carry
ExampleKinds == { <<70, 30>>, <<70, 10>> }
Seeds == {3}
NumClassesChoices == {21}

VARIABLES
    cfg,          \* the process-wide configuration (read-only)
    num_classes,  \* self._num_classes
    num_data,     \* self._num_data
    roidb,        \* self._roidb
    perm,         \* self._perm
    cur,          \* self._cur
    rng,          \* the state of np.random in the parent process
    db_inds,      \* what _get_next_minibatch_inds last returned on this roidb
    served,       \* history: the batches returned from the current self._perm
    blob_queue,   \* the items of self._blob_queue
    queuesMade,   \* Queue objects constructed
    procs,        \* status of every BlobFetcher started, in order of creation
    fetcher,      \* the attributes and position of self._prefetch_process
    mainpc,       \* position of the main (consumer) thread
    setCalls,     \* set_roidb calls made
    hooks,        \* cleanup closures registered with atexit
    hooksLeft,    \* cleanup closures still to run at exit
    hookpc,       \* position inside the running cleanup closure
    err,          \* an exception reached the caller of forward
    lastBlobs,    \* what the last _get_next_minibatch returned
    lastMode,     \* the branch the last _get_next_minibatch took
    pushed,       \* history: what the current producer put on its queue
    popped,       \* history: what the consumer got from the current queue
    twin,         \* a second execution under the same roidb and cfg: its
                  \* BlobFetcher f and the index batches it pushed
    param_str,    \* self.param_str_, as the arguments it spells
    setuppc,      \* "new" before setup, "done" or "error" after it
    name_to_top_map,  \* self._name_to_top_map
    top,          \* the output blobs of the layer: slot k is top[k + 1]
    published     \* the blob-set the last forward copied to top

vars == <<cfg, num_classes, num_data, roidb, perm, cur, rng, db_inds, served,
          blob_queue, queuesMade, procs, fetcher, mainpc, setCalls, hooks,
          hooksLeft, hookpc, err, lastBlobs, lastMode, pushed, popped, twin,
          param_str, setuppc, name_to_top_map, top, published>>

netVars == <<param_str, setuppc, name_to_top_map, top, published>>
layerVars == <<num_classes, num_data, roidb, perm, cur, rng, db_inds, served,
               netVars>>
exitVars == <<hooks, hooksLeft, hookpc>>
histVars == <<pushed, popped>>

\* ------------------------------------------------------------- helpers
Range(s) == {s[i] : i \in DOMAIN s}

NoDup(s) == \A i, j \in DOMAIN s : i # j => s[i] # s[j]

Min(a, b) == IF a <= b THEN a ELSE b

\* roidbs of at most n examples
Stores(n) == UNION {[1..k -> ExampleKinds] : k \in 0..n}

\* np.arange(n)
Arange(n) == [i \in 1..n |-> i - 1]

\* every ordering of 0..n-1
Perms(n) == {p \in [1..n -> 0..(n - 1)] : NoDup(p)}

RemoveAt(s, i) == [k \in 1..(Len(s) - 1) |-> IF k < i THEN s[k] ELSE s[k + 1]]

RECURSIVE Unrank(_, _)
\* the permutation of avail a generator state selects
Unrank(avail, code) ==
    IF avail = <<>> THEN <<>>
    ELSE LET i == (code % Len(avail)) + 1
         IN  <<avail[i]>> \o Unrank(RemoveAt(avail, i), code \div Len(avail))

Unseeded == [seeded |-> FALSE, x |-> 0]

\* np.random.seed(s)
Seed(s) == [seeded |-> TRUE, x |-> s % RngPeriod]

\* the generator state after one draw
NextRng(x) == (x + 1) % RngPeriod

\* np.random.permutation(np.arange(n)): the possible results, each with the
\* generator state it leaves
Permutation(g, n) ==
    IF g.seeded
    THEN {[perm |-> Unrank(Arange(n), g.x), rng |-> [seeded |-> TRUE, x |-> NextRng(g.x)]]}
    ELSE {[perm |-> p, rng |-> g] : p \in Perms(n)}

\* seq[c : c + b] of Python
Slice(seq, c, b) == SubSeq(seq, c + 1, Min(c + b, Len(seq)))

\* [roidb[i] for i in db_inds]
Gather(db, inds) == [k \in 1..Len(inds) |-> db[inds[k] + 1]]

\* get_minibatch: the blob-set is determined by the arguments of the call
GetMinibatch(minibatch_db, nc, nd) ==
    [minibatch_db |-> minibatch_db, num_classes |-> nc, num_data |-> nd]

\* ------------------------------------------- RoIDataLayerPi: the sampler
HasFg(ov) == \E i \in DOMAIN ov : ov[i] > FG_THRESH

HasBg(ov) == \E i \in DOMAIN ov : ov[i] > BG_THRESH_LO /\ ov[i] < BG_THRESH_HI

\* the list valid of _shuffle_roidb_inds, as a set
Valid(db) == {i \in 0..(Len(db) - 1) : HasFg(db[i + 1]) /\ HasBg(db[i + 1])}

\* mutant: the permutation is kept whole, as BlobFetcher keeps it
FilterPermKeepsAll(pp, valid) == pp

\* pp = [a for a in pp if a in valid]
FilterPerm(pp, valid) == SelectSeq(pp, LAMBDA a : a \in valid)

\* RoIDataLayerPi._shuffle_roidb_inds: the possible [perm, cur, rng]
ShuffleRoidbInds(db, g) ==
    {[perm |-> FilterPerm(d.perm, Valid(db)), cur |-> 0, rng |-> d.rng] :
        d \in Permutation(g, Len(db))}

\* mutant: the reshuffle waits until the slice would pass the end
NeedsShuffleLate(c, b, len) == c + b > len

\* the test that makes _get_next_minibatch_inds reshuffle
NeedsShuffle(c, b, len) == c + b >= len

\* mutant: the cursor stays where it was
GetNextMinibatchIndsStuck(db, p, c, g, b) ==
    LET after == IF NeedsShuffle(c, b, Len(p))
                 THEN ShuffleRoidbInds(db, g)
                 ELSE {[perm |-> p, cur |-> c, rng |-> g]}
    IN  {[perm |-> s.perm, cur |-> s.cur, rng |-> s.rng,
          db_inds |-> Slice(s.perm, s.cur, b),
          shuffled |-> NeedsShuffle(c, b, Len(p))] : s \in after}

\* RoIDataLayerPi._get_next_minibatch_inds: the possible
\* [perm, cur, rng, db_inds], and whether the call reshuffled
GetNextMinibatchInds(db, p, c, g, b) ==
    LET after == IF NeedsShuffle(c, b, Len(p))
                 THEN ShuffleRoidbInds(db, g)
                 ELSE {[perm |-> p, cur |-> c, rng |-> g]}
    IN  {[perm |-> s.perm, cur |-> s.cur + b, rng |-> s.rng,
          db_inds |-> Slice(s.perm, s.cur, b),
          shuffled |-> NeedsShuffle(c, b, Len(p))] : s \in after}

\* the batches returned from the current permutation, after a call returned s
Serve(sv, s) == IF s.shuffled THEN <<s.db_inds>> ELSE Append(sv, s.db_inds)

\* ------------------------------------------------ BlobFetcher: the sampler
\* mutant: the producer filters its permutation as the layer does
FetcherShuffleFiltered(db, g) == ShuffleRoidbInds(db, g)

\* BlobFetcher._shuffle_roidb_inds: the possible [perm, cur, rng]
FetcherShuffle(db, g) ==
    {[perm |-> d.perm, cur |-> 0, rng |-> d.rng] : d \in Permutation(g, Len(db))}

\* BlobFetcher._get_next_minibatch_inds: the possible [perm, cur, rng,
\* db_inds], and whether the call reshuffled
FetcherNextInds(db, p, c, g, b) ==
    LET after == IF NeedsShuffle(c, b, Len(db))
                 THEN FetcherShuffle(db, g)
                 ELSE {[perm |-> p, cur |-> c, rng |-> g]}
    IN  {[perm |-> s.perm, cur |-> s.cur + b, rng |-> s.rng,
          db_inds |-> Slice(s.perm, s.cur, b),
          shuffled |-> NeedsShuffle(c, b, Len(db))] : s \in after}

\* a BlobFetcher that was never constructed
NoFetcher ==
    [roidb |-> <<>>, num_classes |-> 0, perm |-> <<>>, cur |-> 0,
     rng |-> Unseeded, pc |-> "none", db_inds |-> <<>>, served |-> <<>>,
     blobs |-> GetMinibatch(<<>>, 0, Omitted)]

\* BlobFetcher.__init__: the possible new objects, before np.random.seed
FetcherInit(db, nc, g) ==
    {[roidb |-> db, num_classes |-> nc, perm |-> s.perm, cur |-> s.cur,
      rng |-> s.rng, pc |-> "init", db_inds |-> <<>>, served |-> <<>>,
      blobs |-> GetMinibatch(<<>>, 0, Omitted)] : s \in FetcherShuffle(db, g)}

\* ------------------------------------------------------------- the queue
\* mutant: the queue takes one item more than its capacity
QueueFullLate(q) == Len(q) > QueueCap

QueueFull(q) == Len(q) >= QueueCap

QueueEmpty(q) == Len(q) = 0

\* Queue.put on a queue with room
QueuePut(q, item) == Append(q, item)

\* mutant: get takes the newest item
QueueGetNewest(q) == [item |-> q[Len(q)], rest |-> SubSeq(q, 1, Len(q) - 1)]

\* Queue.get on a non-empty queue: [item, rest]
QueueGet(q) == [item |-> Head(q), rest |-> Tail(q)]

Alive(status) == status \in {"running", "signalled"}

CurrentProc == procs[Len(procs)]

FetcherAlive == Len(procs) > 0 /\ Alive(CurrentProc)

SetCurrentProc(status) == [procs EXCEPT ![Len(procs)] = status]

NoTwin == [f |-> NoFetcher, pushed |-> <<>>]

\* ------------------------------------------------ RoIDataLayerPi.setup
\* the parameter strings: each argument is absent or an integer, and a
\* string that is not well formed gives a value that is not an integer
ParamStrs ==
    [num_classes : {None} \cup NumClassesChoices,
     num_data : {None} \cup 0..MaxNumData,
     wellformed : BOOLEAN]

\* parse_args with type=int exits on a value that is not an integer
ParseFails(str) == ~str.wellformed

\* the top blobs the net gives the layer
NumTop == MaxNumData + 4

\* a top blob before setup
Blob0 == [shape |-> <<>>, data |-> [dtype |-> "float32", v |-> 0]]

Top0 == [k \in 1..NumTop |-> Blob0]

\* top[k].reshape(*shape)
Reshape(t, k, shape) == [t EXCEPT ![k + 1].shape = shape]

EmptyMap == [n \in {} |-> 0]

\* m[k] = v of a dict
Put(m, k, v) == (k :> v) @@ m

\* 'data_{:d}'.format(i)
DataName(i) == <<"data_1", "data_2", "data_3", "data_4">>[i]

RECURSIVE AuxLoop(_, _, _)
\* for i in xrange(i, D): name the slot of data_i and reshape it
AuxLoop(st, i, D) ==
    IF i >= D THEN st
    ELSE AuxLoop([map |-> Put(st.map, DataName(i), i),
                  top |-> Reshape(st.top, i, <<1, 3, 100, 100>>)], i + 1, D)

\* setup after parse_args returned args, on top blobs t: the [map, top] it
\* leaves and whether it ended ("done") or raised ("error")
SetupRun(args, bbox, t) ==
    LET s1 == [map |-> Put(EmptyMap, "data", 0),
               top |-> Reshape(t, 0, <<1, 7, 100, 100>>)]
        D  == args.num_data
        s2 == AuxLoop(s1, 1, D)
        s3 == [map |-> Put(s2.map, "rois", D),
               top |-> Reshape(s2.top, D, <<1, 5>>)]
        s4 == [map |-> Put(s3.map, "labels", D + 1),
               top |-> Reshape(s3.top, D + 1, <<1>>)]
        m5 == Put(s4.map, "bbox_targets", D + 2)
        t5 == Reshape(s4.top, D + 2, <<1, args.num_classes * 4>>)
        m6 == Put(m5, "bbox_loss_weights", D + 3)
        t6 == Reshape(t5, D + 3, <<1, args.num_classes * 4>>)
    IN  IF D = None
        THEN [map |-> s1.map, top |-> s1.top, pc |-> "error"]
        ELSE IF ~bbox
        THEN [map |-> s4.map, top |-> s4.top, pc |-> "done"]
        ELSE IF args.num_classes = None
        THEN [map |-> m5, top |-> s4.top, pc |-> "error"]
        ELSE [map |-> m6, top |-> t6, pc |-> "done"]

\* ------------------------------------------------ RoIDataLayerPi.forward
\* the array the builder returns under a name for a batch of r regions
Array(name, r, nc) ==
    [shape |-> CASE name = "rois" -> <<r, 5>>
                 [] name = "labels" -> <<r>>
                 [] name \in {"bbox_targets", "bbox_loss_weights"} -> <<r, nc * 4>>
                 [] name = "data" -> <<1, 7, 200, 200>>
                 [] OTHER -> <<1, 3, 200, 200>>,
     data |-> [dtype |-> "float64", v |-> r]]

\* the blob-sets a call of _get_next_minibatch may return to forward: arrays
\* for r regions under the names of the map, or under all of them but one
BlobSets(m, nc) ==
    {[n \in (DOMAIN m) \ drop |-> Array(n, r, nc)] :
        r \in 1..MaxRois,
        drop \in {{}} \cup {{n} : n \in DOMAIN m}}

\* top[top_ind].reshape(*(blob.shape)) and
\* top[top_ind].data[...] = blob.astype(np.float32, copy=False)
Written(slot, blob) ==
    [shape |-> blob.shape, data |-> [dtype |-> "float32", v |-> blob.data.v]]

\* the names of blob-set bs that forward copies to slot k
Writers(m, bs, k) == {n \in DOMAIN bs : m[n] = k}

RECURSIVE Publish(_, _, _, _)
\* the loop of forward over blobs.iteritems(), whose order is not fixed:
\* the possible contents of the first k top blobs after it, where a slot
\* holds the array of the last name that was copied to it
Publish(t, m, bs, k) ==
    IF k = 0 THEN {<<>>}
    ELSE {Append(head, slot) :
            head \in Publish(t, m, bs, k - 1),
            slot \in IF Writers(m, bs, k - 1) = {}
                     THEN {t[k]}
                     ELSE {Written(t[k], bs[n]) : n \in Writers(m, bs, k - 1)}}

\* ---------------------------------------------------------------- Init
\* the layer before set_roidb
Constructed ==
    /\ roidb = <<>>
    /\ perm = <<>>
    /\ cur = 0
    /\ rng = Unseeded
    /\ db_inds = <<>>
    /\ served = <<>>
    /\ blob_queue = <<>>
    /\ queuesMade = 0
    /\ procs = <<>>
    /\ fetcher = NoFetcher
    /\ mainpc = "idle"
    /\ setCalls = 0
    /\ hooks = 0
    /\ hooksLeft = 0
    /\ hookpc = "none"
    /\ err = FALSE
    /\ lastBlobs = GetMinibatch(<<>>, 0, Omitted)
    /\ lastMode = "none"
    /\ pushed = <<>>
    /\ popped = <<>>
    /\ twin = NoTwin
    /\ published = EmptyMap

\* the layer after a setup that ended, under the default cfg.TRAIN.BBOX_REG
Init ==
    /\ cfg \in [USE_PREFETCH : BOOLEAN, IMS_PER_BATCH : 1..MaxB, RNG_SEED : Seeds,
                BBOX_REG : {TRUE}]
    /\ num_classes \in NumClassesChoices
    /\ num_data \in 1..MaxNumData
    /\ param_str = [num_classes |-> num_classes, num_data |-> num_data,
                    wellformed |-> TRUE]
    /\ setuppc = "done"
    /\ name_to_top_map = SetupRun(param_str, cfg.BBOX_REG, Top0).map
    /\ top = SetupRun(param_str, cfg.BBOX_REG, Top0).top
    /\ Constructed

\* the layer as the net constructs it, before setup, in synchronous mode
InitLayer ==
    /\ cfg \in [USE_PREFETCH : {FALSE}, IMS_PER_BATCH : 1..MaxB, RNG_SEED : Seeds,
                BBOX_REG : BOOLEAN]
    /\ num_classes = None
    /\ num_data = None
    /\ param_str \in ParamStrs
    /\ setuppc = "new"
    /\ name_to_top_map = EmptyMap
    /\ top = Top0
    /\ Constructed

\* setup(bottom, top)
Setup ==
    /\ setuppc = "new"
    /\ IF ParseFails(param_str)
       THEN /\ setuppc' = "error"
            /\ UNCHANGED <<num_classes, num_data, name_to_top_map, top>>
       ELSE /\ num_classes' = param_str.num_classes
            /\ num_data' = param_str.num_data
            /\ name_to_top_map' = SetupRun(param_str, cfg.BBOX_REG, top).map
            /\ top' = SetupRun(param_str, cfg.BBOX_REG, top).top
            /\ setuppc' = SetupRun(param_str, cfg.BBOX_REG, top).pc
    /\ UNCHANGED <<cfg, roidb, perm, cur, rng, db_inds, served, blob_queue,
                   queuesMade, procs, fetcher, mainpc, setCalls, exitVars, err,
                   lastBlobs, lastMode, pushed, popped, twin, param_str,
                   published>>


\* ------------------------------------------------ RoIDataLayerPi.set_roidb
\* mutant: set_roidb starts the producer whatever the configuration says
StartsPrefetchAlways(c) == TRUE

\* the test of cfg.TRAIN.USE_PREFETCH in set_roidb
StartsPrefetch(c) == c.USE_PREFETCH

\* the test of cfg.TRAIN.USE_PREFETCH in _get_next_minibatch
TakesPrefetchBranch(c) == c.USE_PREFETCH

\* Process.start(): the child is a copy of the object with a copy of the
\* parent's np.random state g
Start(f, g) == [f EXCEPT !.rng = g, !.pc = "sample"]

\* the BlobFetcher of another execution of set_roidb(r) under the same cfg,
\* whose parent generator is in an unrelated state
TwinFetchers(r) ==
    {[f |-> Start(f, Seed(cfg.RNG_SEED)), pushed |-> <<>>] :
        f \in FetcherInit(r, num_classes, Unseeded)}

\* set_roidb(r), as one of the first maxCalls calls of it
SetRoidb(maxCalls, withTwin) ==
    /\ mainpc = "idle"
    /\ setuppc = "done"
    /\ setCalls < maxCalls
    /\ setCalls' = setCalls + 1
    /\ \E r \in Stores(IF StartsPrefetch(cfg) THEN MaxPrefetchN ELSE MaxN) :
       \E s \in ShuffleRoidbInds(r, rng) :
          /\ roidb' = r
          /\ perm' = s.perm
          /\ cur' = s.cur
          /\ db_inds' = <<>>
          /\ served' = <<>>
          /\ twin' \in (IF withTwin /\ StartsPrefetch(cfg) THEN TwinFetchers(r) ELSE {twin})
          /\ IF StartsPrefetch(cfg)
             THEN \E f \in FetcherInit(r, num_classes, s.rng) :
                     /\ rng' = Seed(cfg.RNG_SEED)
                     /\ fetcher' = Start(f, Seed(cfg.RNG_SEED))
                     /\ blob_queue' = <<>>
                     /\ queuesMade' = queuesMade + 1
                     /\ procs' = Append(procs, "running")
                     /\ hooks' = hooks + 1
                     /\ pushed' = <<>>
                     /\ popped' = <<>>
             ELSE /\ rng' = s.rng
                  /\ UNCHANGED <<fetcher, blob_queue, queuesMade, procs, hooks,
                                 pushed, popped>>
    /\ UNCHANGED <<cfg, num_classes, num_data, mainpc, hooksLeft, hookpc, err,
                   lastBlobs, lastMode, netVars>>

\* ---------------------------------- RoIDataLayerPi._get_next_minibatch
\* the synchronous branch, run to its end by the calling thread, and the
\* rest of forward when publishes
SyncCall(publishes) ==
    /\ mainpc = "idle"
    /\ setCalls > 0
    /\ ~TakesPrefetchBranch(cfg)
    /\ lastMode' = "sync"
    /\ \E s \in GetNextMinibatchInds(roidb, perm, cur, rng, cfg.IMS_PER_BATCH) :
          /\ perm' = s.perm
          /\ cur' = s.cur
          /\ rng' = s.rng
          /\ db_inds' = s.db_inds
          /\ served' = Serve(served, s)
          /\ \E ok \in BOOLEAN :
                IF ok
                THEN /\ lastBlobs' = GetMinibatch(Gather(roidb, s.db_inds),
                                                  num_classes, num_data)
                     /\ UNCHANGED <<err, mainpc>>
                     /\ IF publishes
                        THEN \E bs \in BlobSets(name_to_top_map, num_classes) :
                                /\ published' = bs
                                /\ top' \in Publish(top, name_to_top_map, bs,
                                                    NumTop)
                        ELSE UNCHANGED <<top, published>>
                ELSE /\ err' = TRUE
                     /\ mainpc' = "error"
                     /\ UNCHANGED <<lastBlobs, top, published>>
    /\ UNCHANGED <<cfg, num_classes, num_data, roidb, blob_queue, queuesMade,
                   procs, fetcher, setCalls, hooks, hooksLeft, hookpc, pushed,
                   popped, twin, param_str, setuppc, name_to_top_map>>

\* _get_next_minibatch in its synchronous branch
NextMinibatchSync == SyncCall(FALSE)

\* forward in synchronous mode
ForwardSync == SyncCall(TRUE)

\* the prefetch branch: the thread enters self._blob_queue.get()
NextMinibatchPrefetch ==
    /\ mainpc = "idle"
    /\ setCalls > 0
    /\ TakesPrefetchBranch(cfg)
    /\ mainpc' = "waiting"
    /\ lastMode' = "prefetch"
    /\ UNCHANGED <<cfg, layerVars, blob_queue, queuesMade, procs, fetcher,
                   setCalls, exitVars, err, lastBlobs, pushed, popped, twin>>

\* self._blob_queue.get() returns
GetReturns(record) ==
    /\ mainpc = "waiting"
    /\ ~QueueEmpty(blob_queue)
    /\ lastBlobs' = QueueGet(blob_queue).item
    /\ blob_queue' = QueueGet(blob_queue).rest
    /\ mainpc' = "idle"
    /\ popped' = IF record THEN Append(popped, QueueGet(blob_queue).item) ELSE popped
    /\ UNCHANGED <<cfg, layerVars, queuesMade, procs, fetcher, setCalls,
                   exitVars, err, lastMode, pushed, twin>>

\* ------------------------------------------------------- BlobFetcher.run
\* mutant: run() returns after its first put
AfterPutReturns == "done"

\* the pc of the producer after self._queue.put(blobs): while True
AfterPut == "sample"

\* one pass of the loop up to the put: the indices, the examples, the blobs
FetcherBuilds ==
    /\ FetcherAlive
    /\ fetcher.pc = "sample"
    /\ \E s \in FetcherNextInds(fetcher.roidb, fetcher.perm, fetcher.cur,
                                fetcher.rng, cfg.IMS_PER_BATCH) :
          fetcher' = [fetcher EXCEPT
                        !.perm = s.perm, !.cur = s.cur, !.rng = s.rng,
                        !.db_inds = s.db_inds,
                        !.served = Serve(fetcher.served, s),
                        !.blobs = GetMinibatch(Gather(fetcher.roidb, s.db_inds),
                                               fetcher.num_classes, Omitted),
                        !.pc = "put"]
    /\ UNCHANGED <<cfg, layerVars, blob_queue, queuesMade, procs, mainpc,
                   setCalls, exitVars, err, lastBlobs, lastMode, pushed, popped,
                   twin>>

\* get_minibatch raises in the producer: the exception leaves run() and the
\* process ends
FetcherBuildFails ==
    /\ FetcherAlive
    /\ fetcher.pc = "sample"
    /\ \E s \in FetcherNextInds(fetcher.roidb, fetcher.perm, fetcher.cur,
                                fetcher.rng, cfg.IMS_PER_BATCH) :
          fetcher' = [fetcher EXCEPT
                        !.perm = s.perm, !.cur = s.cur, !.rng = s.rng,
                        !.db_inds = s.db_inds,
                        !.served = Serve(fetcher.served, s), !.pc = "raised"]
    /\ procs' = SetCurrentProc("failed")
    /\ UNCHANGED <<cfg, layerVars, blob_queue, queuesMade, mainpc, setCalls,
                   exitVars, err, lastBlobs, lastMode, pushed, popped, twin>>

\* self._queue.put(blobs) returns
FetcherPuts(record) ==
    /\ FetcherAlive
    /\ fetcher.pc = "put"
    /\ ~QueueFull(blob_queue)
    /\ record => Len(pushed) < MaxPush
    /\ blob_queue' = QueuePut(blob_queue, fetcher.blobs)
    /\ fetcher' = [fetcher EXCEPT !.pc = AfterPut]
    /\ pushed' = IF record
                 THEN Append(pushed, [db_inds |-> fetcher.db_inds,
                                      blobs |-> fetcher.blobs])
                 ELSE pushed
    /\ UNCHANGED <<cfg, layerVars, queuesMade, procs, mainpc, setCalls,
                   exitVars, err, lastBlobs, lastMode, popped, twin>>

\* the signalled process ends
FetcherDies ==
    /\ Len(procs) > 0
    /\ CurrentProc = "signalled"
    /\ procs' = SetCurrentProc("dead")
    /\ UNCHANGED <<cfg, layerVars, blob_queue, queuesMade, fetcher, mainpc,
                   setCalls, exitVars, err, lastBlobs, lastMode, pushed, popped,
                   twin>>

\* ------------------------------------------------------- exit and cleanup
\* the interpreter exits and runs what was registered with atexit
Exit ==
    /\ mainpc \in {"idle", "error"}
    /\ mainpc' = IF hooks = 0 THEN "exited" ELSE "atexit"
    /\ hooksLeft' = hooks
    /\ hookpc' = IF hooks = 0 THEN "none" ELSE "terminate"
    /\ UNCHANGED <<cfg, layerVars, blob_queue, queuesMade, procs, fetcher,
                   setCalls, hooks, err, lastBlobs, lastMode, pushed, popped,
                   twin>>

\* mutant: terminate() signals the process whatever its status
TerminateAgain(status) == "signalled"

\* Process.terminate() of a status
Terminate(status) == IF status = "running" THEN "signalled" ELSE status

\* the process cleanup() acts on: self._prefetch_process when cleanup runs
CleanupTarget(k) == Len(procs)

\* Process.join() returns for a process of this status
Joinable(status) == ~Alive(status)

\* cleanup(): self._prefetch_process.terminate()
CleanupTerminates ==
    /\ mainpc = "atexit"
    /\ hookpc = "terminate"
    /\ procs' = [procs EXCEPT ![CleanupTarget(hooksLeft)] =
                                  Terminate(procs[CleanupTarget(hooksLeft)])]
    /\ hookpc' = "join"
    /\ UNCHANGED <<cfg, layerVars, blob_queue, queuesMade, fetcher, mainpc,
                   setCalls, hooks, hooksLeft, err, lastBlobs, lastMode, pushed,
                   popped, twin>>

\* cleanup(): self._prefetch_process.join() returns
CleanupJoins ==
    /\ mainpc = "atexit"
    /\ hookpc = "join"
    /\ Joinable(procs[CleanupTarget(hooksLeft)])
    /\ hooksLeft' = hooksLeft - 1
    /\ hookpc' = IF hooksLeft = 1 THEN "none" ELSE "terminate"
    /\ mainpc' = IF hooksLeft = 1 THEN "exited" ELSE "atexit"
    /\ UNCHANGED <<cfg, layerVars, blob_queue, queuesMade, procs, fetcher,
                   setCalls, hooks, err, lastBlobs, lastMode, pushed, popped,
                   twin>>

\* the BlobFetcher of the second execution runs one pass of its loop
TwinRuns ==
    /\ twin.f.pc = "sample"
    /\ Len(twin.pushed) < MaxPush
    /\ \E s \in FetcherNextInds(twin.f.roidb, twin.f.perm, twin.f.cur,
                                twin.f.rng, cfg.IMS_PER_BATCH) :
          twin' = [f |-> [twin.f EXCEPT !.perm = s.perm, !.cur = s.cur,
                                        !.rng = s.rng, !.db_inds = s.db_inds,
                                        !.served = Serve(twin.f.served, s)],
                   pushed |-> Append(twin.pushed, s.db_inds)]
    /\ UNCHANGED <<cfg, layerVars, blob_queue, queuesMade, procs, fetcher,
                   mainpc, setCalls, exitVars, err, lastBlobs, lastMode, pushed,
                   popped>>

\* ---------------------------------------------------- the specifications
\* the layer in operation, with the history of the current queue
Next ==
    \/ SetRoidb(MaxSetRoidb, FALSE)
    \/ NextMinibatchSync
    \/ NextMinibatchPrefetch
    \/ GetReturns(TRUE)
    \/ FetcherBuilds
    \/ FetcherBuildFails
    \/ FetcherPuts(TRUE)

Spec == Init /\ [][Next]_vars

\* the layer from construction to the end of the interpreter
NextExit ==
    \/ SetRoidb(MaxSetRoidb, FALSE)
    \/ NextMinibatchSync
    \/ NextMinibatchPrefetch
    \/ GetReturns(FALSE)
    \/ FetcherBuilds
    \/ FetcherBuildFails
    \/ FetcherPuts(FALSE)
    \/ FetcherDies
    \/ Exit
    \/ CleanupTerminates
    \/ CleanupJoins

SpecExit == Init /\ [][NextExit]_vars

\* the layer in operation on the roidb it was given, without the history
NextLive ==
    \/ SetRoidb(1, FALSE)
    \/ NextMinibatchSync
    \/ NextMinibatchPrefetch
    \/ GetReturns(FALSE)
    \/ FetcherBuilds
    \/ FetcherBuildFails
    \/ FetcherPuts(FALSE)

\* the operating system schedules the producer process and wakes the
\* consumer blocked in get()
FairSpec ==
    /\ Init
    /\ [][NextLive]_vars
    /\ WF_vars(FetcherBuilds)
    /\ WF_vars(FetcherPuts(FALSE))
    /\ WF_vars(GetReturns(FALSE))

\* two executions of set_roidb in prefetch mode, side by side
InitTwin == Init /\ cfg.USE_PREFETCH

NextTwin ==
    \/ SetRoidb(1, TRUE)
    \/ NextMinibatchPrefetch
    \/ GetReturns(TRUE)
    \/ FetcherBuilds
    \/ FetcherPuts(TRUE)
    \/ TwinRuns

SpecTwin == InitTwin /\ [][NextTwin]_vars

\* the layer from its construction by the net: setup, set_roidb, forward
NextLayer ==
    \/ Setup
    \/ SetRoidb(1, FALSE)
    \/ ForwardSync

SpecLayer == InitLayer /\ [][NextLayer]_vars

\* ------------------------------------------------------------ the claims
B == cfg.IMS_PER_BATCH

FetcherRunning == Len(procs) > 0 /\ CurrentProc = "running"

\* the producer holds indices its sampler returned
FetcherSampled == fetcher.pc \in {"put", "raised"}

PushedBlobs == [i \in 1..Len(pushed) |-> pushed[i].blobs]

\* C1: once set_roidb has run, the layer's permutation has no duplicates and
\* its elements are exactly the indices of the examples with has_fg and
\* has_bg, and the indices the synchronous sampler returned are among them.
C1_PermIsEligible ==
    setCalls > 0 =>
        /\ NoDup(perm)
        /\ Range(perm) = {i \in 0..(Len(roidb) - 1) :
                             HasFg(roidb[i + 1]) /\ HasBg(roidb[i + 1])}
        /\ lastMode = "sync" =>
              \A k \in DOMAIN db_inds :
                 HasFg(roidb[db_inds[k] + 1]) /\ HasBg(roidb[db_inds[k] + 1])

\* a synchronous call returned indices of a roidb that has an eligible and
\* an ineligible example
C1_Witness ==
    /\ lastMode = "sync"
    /\ db_inds # <<>>
    /\ \E i \in DOMAIN roidb : ~(HasFg(roidb[i]) /\ HasBg(roidb[i]))
    /\ \E i, j \in DOMAIN perm : i # j

\* C2: on a non-empty roidb, whenever a sampler (the layer's or the
\* producer's) has indices to draw from, the batch it returned has exactly
\* IMS_PER_BATCH indices, pairwise distinct.
C2_FullBatches ==
    /\ (lastMode = "sync" /\ Len(roidb) > 0 /\ perm # <<>>) =>
          Len(db_inds) = B /\ NoDup(db_inds)
    /\ (FetcherSampled /\ Len(fetcher.roidb) > 0) =>
          Len(fetcher.db_inds) = B /\ NoDup(fetcher.db_inds)

\* C3: the queue never holds more than 10 blob-sets; put cannot return while
\* it holds 10 and get cannot return while it holds none.
C3_ChannelBounded ==
    /\ Len(blob_queue) <= QueueCap
    /\ Len(blob_queue) = QueueCap => ~ENABLED FetcherPuts(FALSE)
    /\ Len(blob_queue) = 0 => ~ENABLED GetReturns(FALSE)

\* the producer is blocked in put on a full queue
C3_Witness ==
    /\ Len(blob_queue) = QueueCap
    /\ FetcherRunning
    /\ fetcher.pc = "put"

\* C4: what the producer pushed is what the consumer got followed by what
\* the queue holds, in that order: the blob-sets returned are a prefix of
\* the blob-sets pushed, and the last one returned is the last one got.
C4_Fifo ==
    /\ PushedBlobs = popped \o blob_queue
    /\ popped # <<>> => lastBlobs = popped[Len(popped)]

\* three blob-sets were delivered, not all the same, and more are queued
C4_Witness ==
    /\ Len(popped) >= 3
    /\ \E i, j \in DOMAIN popped : popped[i] # popped[j]
    /\ Len(blob_queue) >= 2
    /\ blob_queue[1] # blob_queue[2]

\* the consumer waits on an empty queue and the running producer can take
\* no step
Stuck ==
    /\ mainpc = "waiting"
    /\ QueueEmpty(blob_queue)
    /\ FetcherRunning
    /\ ~(ENABLED FetcherBuilds \/ ENABLED FetcherPuts(FALSE))

\* C5: under fair scheduling, a consumer waiting in get() gets its blob-set
\* unless the producer ended (its builder raised), and no state is reached
\* where the consumer waits on an empty queue while the running producer
\* cannot move.
C5_ConsumerServed ==
    /\ [](~Stuck)
    /\ (mainpc = "waiting") ~> (mainpc = "idle" \/ ~FetcherRunning)

\* the consumer is blocked in get() on an empty queue behind a running
\* producer, after an earlier call was served
C5_Witness ==
    /\ mainpc = "waiting"
    /\ QueueEmpty(blob_queue)
    /\ FetcherRunning
    /\ lastBlobs.minibatch_db # <<>>

\* C6: when every registered cleanup has run, no BlobFetcher this layer
\* started is still alive.
C6_NoOrphan ==
    mainpc = "exited" => \A i \in DOMAIN procs : ~Alive(procs[i])

\* C7: when the producer ended because its builder raised, a consumer
\* waiting on the empty queue has the error raised to it.
C7_FailureSurfaced ==
    (/\ Len(procs) > 0
     /\ CurrentProc = "failed"
     /\ mainpc = "waiting"
     /\ QueueEmpty(blob_queue)) => err

\* C8: the blob-set the producer built for a batch of indices is the one
\* the synchronous feeder builds for it: get_minibatch of the same examples,
\* num_classes and num_data.
C8_SameBuilderCall ==
    (fetcher.pc = "put" /\ fetcher.roidb = roidb) =>
        fetcher.blobs = GetMinibatch(Gather(roidb, fetcher.db_inds),
                                     num_classes, num_data)

\* a step of _get_next_minibatch in its prefetch branch
PrefetchStep ==
    \/ mainpc = "idle" /\ mainpc' = "waiting"
    \/ mainpc = "waiting" /\ mainpc' = "idle"

\* C9: every call of _get_next_minibatch takes the branch of the mode that
\* set_roidb set up; in synchronous mode no queue and no process exists; a
\* prefetch call leaves the layer's permutation and cursor alone and only
\* reads the queue.
C9_ModeExclusive ==
    /\ [](/\ lastMode = "prefetch" => (queuesMade = setCalls /\ cfg.USE_PREFETCH)
          /\ lastMode = "sync" => (queuesMade = 0 /\ ~cfg.USE_PREFETCH)
          /\ ~cfg.USE_PREFETCH => (queuesMade = 0 /\ procs = <<>>))
    /\ [][PrefetchStep =>
            /\ lastMode' = "prefetch"
            /\ perm' = perm
            /\ cur' = cur
            /\ rng' = rng
            /\ blob_queue' \in {blob_queue} \cup
                  (IF blob_queue = <<>> THEN {} ELSE {Tail(blob_queue)})]_vars

\* a prefetch call returned a blob-set while the layer holds a permutation
C9_Witness ==
    /\ lastMode = "prefetch"
    /\ mainpc = "idle"
    /\ popped # <<>>
    /\ perm # <<>>

\* C10: two executions with the same roidb, batch size and seed push the
\* same index batches, from the first one on.
C10_SameIndexBatches ==
    \A i \in 1..Min(Len(pushed), Len(twin.pushed)) :
        pushed[i].db_inds = twin.pushed[i]

\* an example of overlaps ov passes the filter of the layer's sampler
Eligible(ov) == HasFg(ov) /\ HasBg(ov)

RECURSIVE Flat(_)
\* the indices of a sequence of batches, in the order they were returned
Flat(batches) ==
    IF batches = <<>> THEN <<>> ELSE Head(batches) \o Flat(Tail(batches))

\* C11: the producer's permutation always holds every index 0..N-1 of its
\* roidb exactly once, eligible or not; a reshuffle of it gives such a
\* permutation with cursor 0, from which the cursor advances by one batch
\* per call.
C11_FetcherPermIsWhole ==
    fetcher.pc # "none" =>
        /\ NoDup(fetcher.perm)
        /\ Range(fetcher.perm) = 0..(Len(fetcher.roidb) - 1)
        /\ \A s \in FetcherShuffle(fetcher.roidb, fetcher.rng) :
              /\ s.cur = 0
              /\ NoDup(s.perm)
              /\ Range(s.perm) = 0..(Len(fetcher.roidb) - 1)
        /\ fetcher.cur = Len(fetcher.served) * B

\* in prefetch mode the consumer got a blob-set built from an ineligible
\* example, after the producer reshuffled in a call
C11_Witness ==
    /\ lastMode = "prefetch"
    /\ mainpc = "idle"
    /\ popped # <<>>
    /\ Len(pushed) * B > Len(fetcher.roidb)
    /\ \E k \in DOMAIN lastBlobs.minibatch_db :
          ~Eligible(lastBlobs.minibatch_db[k])

\* C12: the cursor of the layer's sampler and the cursor of the producer's
\* sampler are between 0 and the length of their permutation.
C12_CursorInBounds ==
    /\ setCalls > 0 => (0 <= cur /\ cur <= Len(perm))
    /\ fetcher.pc # "none" =>
          (0 <= fetcher.cur /\ fetcher.cur <= Len(fetcher.perm))

\* C13: in synchronous mode, when k batches were returned from the current
\* permutation, the cursor is k * IMS_PER_BATCH and the j-th of them is the
\* slice of the permutation that starts at (j-1) * IMS_PER_BATCH.
C13_ConsecutiveSlices ==
    (setCalls > 0 /\ ~cfg.USE_PREFETCH) =>
        /\ cur = Len(served) * B
        /\ \A j \in DOMAIN served : served[j] = Slice(perm, (j - 1) * B, B)

\* two batches were returned from a permutation of three eligible examples
C13_Witness ==
    /\ lastMode = "sync"
    /\ Len(perm) = 3
    /\ Len(served) = 2
    /\ cur = 2 * B

\* C14: when no example of the roidb is eligible, the layer's sampler has
\* returned no batch.
C14_NoBatchWithoutEligible ==
    (setCalls > 0 /\ Valid(roidb) = {}) => served = <<>>

\* the batches sv returned from permutation p with batch size b: each index
\* at most once, and when p is longer than a batch every slice ends before
\* the end of p, so that the last entry of p is not among them
TailUnserved(p, sv, b) ==
    /\ NoDup(Flat(sv))
    /\ Len(p) > b =>
          /\ \A j \in DOMAIN sv :
                /\ sv[j] = Slice(p, (j - 1) * b, b)
                /\ j * b < Len(p)
          /\ p[Len(p)] \notin Range(Flat(sv))
          /\ Range(Flat(sv)) # Range(p)

\* C20: between two reshuffles no index is returned twice, and from a
\* permutation longer than a batch every returned slice ends strictly
\* before its end: its last entry is never returned and so not every index
\* of it is, for the layer's sampler and for the producer's.
C20_TailNeverServed ==
    /\ setCalls > 0 => TailUnserved(perm, served, B)
    /\ fetcher.pc # "none" => TailUnserved(fetcher.perm, fetcher.served, B)

\* the layer's sampler returned two batches from a permutation of three and
\* its next call reshuffles
C20_Witness ==
    /\ lastMode = "sync"
    /\ Len(perm) = 3
    /\ Len(served) = 2
    /\ NeedsShuffle(cur, B, Len(perm))

\* a cleanup closure runs after another one has run to its end
SecondCleanup == mainpc = "atexit" /\ hooksLeft < hooks

\* C15: a cleanup that runs after an earlier cleanup terminated and joined
\* the producer finds it stopped, is never blocked in join, raises nothing
\* and changes neither the status of any process nor the queue.
C15_TeardownIdempotent ==
    /\ [](SecondCleanup =>
             /\ ~Alive(procs[CleanupTarget(hooksLeft)])
             /\ hookpc = "join" => ENABLED CleanupJoins)
    /\ [][SecondCleanup =>
             /\ procs' = procs
             /\ err' = err
             /\ fetcher' = fetcher
             /\ blob_queue' = blob_queue
             /\ mainpc' \in {"atexit", "exited"}]_vars

\* two cleanups ran to their end on a producer the first of them stopped
C15_Witness ==
    /\ mainpc = "exited"
    /\ hooks = 2
    /\ CurrentProc = "dead"

\* C16: after forward, for every name of the blob-set it published the top
\* blob that name maps to has the shape and the contents of the array
\* published under that name.
C16_PublishedAsGiven ==
    \A n \in DOMAIN published :
        /\ top[name_to_top_map[n] + 1].shape = published[n].shape
        /\ top[name_to_top_map[n] + 1].data.v = published[n].data.v

\* the parameter string lacks num_classes or num_data, or is not well formed
LacksArgs(str) ==
    str.num_classes = None \/ str.num_data = None \/ ~str.wellformed

\* C17: once setup has run on a parameter string that lacks num_classes or
\* num_data or has a non-integer value, it has ended in an error, no name
\* is mapped to a slot and no top blob is reshaped.
C17_SetupFailsClean ==
    (setuppc # "new" /\ LacksArgs(param_str)) =>
        /\ setuppc = "error"
        /\ name_to_top_map = EmptyMap
        /\ top = Top0

\* overlaps ov pass a filter whose background band is closed at BG_THRESH_LO
EligibleClosedBand(ov) ==
    /\ \E i \in DOMAIN ov : ov[i] > FG_THRESH
    /\ \E i \in DOMAIN ov : BG_THRESH_LO <= ov[i] /\ ov[i] < BG_THRESH_HI

\* C18: after set_roidb, an index is in the layer's permutation iff its
\* example has a region of overlap above FG_THRESH and a region of overlap
\* o with BG_THRESH_LO <= o < BG_THRESH_HI.
C18_BandClosedAtLo ==
    setCalls > 0 =>
        \A i \in DOMAIN roidb :
            (i - 1) \in Range(perm) <=> EligibleClosedBand(roidb[i])

\* the layout for num_data d: data, data_1 .. data_(d-1), rois, labels and,
\* with bounding-box regression, bbox_targets and bbox_loss_weights
Layout(d, bbox) ==
    [n \in {"data", "rois", "labels"} \cup {DataName(i) : i \in 1..(d - 1)}
           \cup (IF bbox THEN {"bbox_targets", "bbox_loss_weights"} ELSE {}) |->
        CASE n = "data" -> 0
          [] n = "rois" -> d
          [] n = "labels" -> d + 1
          [] n = "bbox_targets" -> d + 2
          [] n = "bbox_loss_weights" -> d + 3
          [] OTHER -> CHOOSE i \in 1..(d - 1) : DataName(i) = n]

Injective(f) == \A a, b \in DOMAIN f : a # b => f[a] # f[b]

\* C19: a setup that ended was given num_data >= 1 and built the layout of
\* that num_data, in which no two names share a slot.
C19_SlotLayout ==
    setuppc = "done" =>
        /\ num_data >= 1
        /\ name_to_top_map = Layout(num_data, cfg.BBOX_REG)
        /\ Injective(name_to_top_map)

====
